---- MODULE Spec2Model ----
(***************************************************************************)
(* Model of the void-check spreadsheet importer                            *)
(* (src/app/api/upload-spreadsheet/route.ts, POST) and of the record store *)
(* table void_checks it reads and writes.                                  *)
(*                                                                         *)
(* JavaScript values are modelled as strings.  null and undefined are the  *)
(* two reserved strings NULL and UNDEFINED, which no cell or column value  *)
(* of the model takes.  The em dash of the source's message texts is       *)
(* written "--" (TLA+ strings are ASCII).                                  *)
(***************************************************************************)
EXTENDS Integers, Sequences, FiniteSets, TLC

NULL == "<null>"
UNDEFINED == "<undefined>"

\* JavaScript truthiness of a string-or-null value: `if (v)`, `!v`, `v || d`.
Truthy(v) == v \notin {NULL, UNDEFINED, ""}

\* `v || d`
OrElse(v, d) == IF Truthy(v) THEN v ELSE d

VALID_STATUSES == <<"Pending", "Complete", "Request Invalidated">>

VARIABLE clock   \* the day of the server's clock, counted from 1

\* The ISO text of day t of the clock.
Timestamp(t) == "2026-01-" \o ToString(17 + t) \o "T00:00:00.000Z"

\* `new Date().toISOString()`
NowISO == Timestamp(clock)

-----------------------------------------------------------------------------
(* Bounds of the model.                                                    *)

\* Largest number of data rows of the uploaded sheet.
MaxRows == 2

-----------------------------------------------------------------------------
(* String conversions of the parser.                                       *)

IsSpace(c) == c \in {" ", "\t"}

RECURSIVE TrimStart(_)
TrimStart(s) ==
  IF Len(s) = 0 THEN s
  ELSE IF IsSpace(SubSeq(s, 1, 1)) THEN TrimStart(SubSeq(s, 2, Len(s)))
  ELSE s

RECURSIVE TrimEnd(_)
TrimEnd(s) ==
  IF Len(s) = 0 THEN s
  ELSE IF IsSpace(SubSeq(s, Len(s), Len(s))) THEN TrimEnd(SubSeq(s, 1, Len(s) - 1))
  ELSE s

\* String.prototype.trim
Trim(s) == TrimEnd(TrimStart(s))

UpperLetters == "ABCDEFGHIJKLMNOPQRSTUVWXYZ"
LowerLetters == "abcdefghijklmnopqrstuvwxyz"

\* Lower-case letter of each upper-case letter.
LowerOf ==
  [c \in {SubSeq(UpperLetters, i, i) : i \in 1..26} |->
     LET i == CHOOSE j \in 1..26 : SubSeq(UpperLetters, j, j) = c
     IN SubSeq(LowerLetters, i, i)]

LowerChar(c) == IF c \in DOMAIN LowerOf THEN LowerOf[c] ELSE c

RECURSIVE ToLowerCase(_)
\* String.prototype.toLowerCase
ToLowerCase(s) ==
  IF Len(s) = 0 THEN s
  ELSE LowerChar(SubSeq(s, 1, 1)) \o ToLowerCase(SubSeq(s, 2, Len(s)))

\* `String(cell.value || '').trim()`
CellText(v) == Trim(OrElse(v, ""))

-----------------------------------------------------------------------------
(* Header row: column indices by normalised header text.                   *)

\* `headers[val] = colNumber` in eachCell order: the last column with the
\* text wins; 0 stands for undefined (no such key).
HeaderCol(headerRow, name) ==
  LET cols == {c \in 1..Len(headerRow) :
                 ToLowerCase(CellText(headerRow[c])) = name}
  IN IF cols = {} THEN 0 ELSE CHOOSE c \in cols : \A d \in cols : d <= c

\* `a || b` on column numbers
ColOr(a, b) == IF a # 0 THEN a ELSE b

idCol(headerRow) == HeaderCol(headerRow, "id")
checkCol(headerRow) ==
  ColOr(HeaderCol(headerRow, "check #"),
        ColOr(HeaderCol(headerRow, "check_number"),
              HeaderCol(headerRow, "check number")))
notesCol(headerRow) == HeaderCol(headerRow, "notes")
statusCol(headerRow) ==
  ColOr(HeaderCol(headerRow, "completion status"),
        HeaderCol(headerRow, "completion_status"))

-----------------------------------------------------------------------------
(* Data rows.  A sheet is a sequence of rows, row 1 the header; a row is   *)
(* a sequence of cell values (NULL for an empty cell).                     *)

\* The four column indices of a header row (lines 63-66).
Columns(h) ==
  [id |-> idCol(h), check |-> checkCol(h), notes |-> notesCol(h),
   status |-> statusCol(h)]

\* Header rows of the uploaded sheets.
HeaderRows ==
  {<<"ID", "Notes", "Completion Status">>,
   <<"Check #", " completion_status ">>,
   <<"id", "Check Number", "NOTES">>,
   <<"ID", "Check #">>,
   <<"Notes", "Owner #">>}

\* The header row of the monthly report.
ReportHeader ==
  <<"ID", "Check #", "Check Amount", "Owner #", "Check Date", "Notes",
    "Completion Status", "Request Date", "Created By">>

\* Columns, tabulated for the header rows of the model.
HeaderColumns == [h \in HeaderRows \cup {ReportHeader} |-> Columns(h)]

\* One data row as the eachRow callback reads it; col: Columns of the
\* header row.
ParsedRow(col, row, rowNumber) ==
  [rowNumber |-> rowNumber,
   id |-> IF col.id # 0 THEN CellText(row[col.id]) ELSE NULL,
   checkNumber |-> IF col.check # 0 THEN CellText(row[col.check]) ELSE NULL,
   notes |-> IF col.notes # 0 THEN CellText(row[col.notes]) ELSE UNDEFINED,
   status |-> IF col.status # 0 THEN CellText(row[col.status]) ELSE UNDEFINED]

\* Mutant: a row without an id is taken for blank.
IsBlankRow_NoId(r) == ~Truthy(r.id)

\* `if (!id && !checkNumber && !notes && !status) return;`
IsBlankRow(r) ==
  ~Truthy(r.id) /\ ~Truthy(r.checkNumber) /\ ~Truthy(r.notes) /\ ~Truthy(r.status)

RECURSIVE ParseFrom(_, _, _)
ParseFrom(col, sheet, rowNumber) ==
  IF rowNumber > Len(sheet) THEN <<>>
  ELSE LET r == ParsedRow(col, sheet[rowNumber], rowNumber)
       IN (IF IsBlankRow(r) THEN <<>> ELSE <<r>>)
            \o ParseFrom(col, sheet, rowNumber + 1)

\* The eachRow pass: rows 2.. of the sheet, blank rows dropped.
ParseSheet(sheet) == ParseFrom(HeaderColumns[sheet[1]], sheet, 2)

-----------------------------------------------------------------------------
(* The record store.  db maps the id of each stored record to its fields;  *)
(* the importer selects 'id, check_number, notes, completion_status'.      *)

SnapshotOf(store) ==
  [i \in DOMAIN store |->
     [id |-> i,
      check_number |-> store[i].check_number,
      notes |-> store[i].notes,
      completion_status |-> store[i].completion_status]]

\* `dbById.has(id)`
dbByIdHas(dbRecords, id) == id \in DOMAIN dbRecords

\* Mutant: the buckets are keyed by the record id.
dbByCheckNumber_KeyedById(dbRecords, cn) ==
  {i \in DOMAIN dbRecords : dbRecords[i].id = cn}

\* `dbByCheckNumber.get(cn) || []`, as the set of ids in the bucket
dbByCheckNumber(dbRecords, cn) ==
  {i \in DOMAIN dbRecords : dbRecords[i].check_number = cn}

RECURSIVE Join(_, _)
\* Array.prototype.join
Join(seq, sep) ==
  IF Len(seq) = 0 THEN ""
  ELSE IF Len(seq) = 1 THEN seq[1]
  ELSE seq[1] \o sep \o Join(Tail(seq), sep)

Includes(seq, v) == \E k \in 1..Len(seq) : seq[k] = v

MsgIdNotFound(id) == "No record found for ID \"" \o id \o "\""
\* Mutant: the ambiguity warning without its advice sentence.
MsgAmbiguous_Short(cn) ==
  "Multiple records for Check #" \o cn \o " -- skipped (ambiguous)"

MsgAmbiguous(cn) ==
  "Multiple records for Check #" \o cn
    \o " -- skipped (ambiguous). Use a report with the ID column for exact matching."
MsgCheckNotFound(cn) == "No record found for Check #" \o cn
MsgInvalidStatus(st) ==
  "Invalid status \"" \o st \o "\". Must be: " \o Join(VALID_STATUSES, ", ")

\* Mutant: an id that is not found falls through to the check number.
MatchRow_IdFallsBack(row, dbRecords) ==
  IF Truthy(row.id) /\ dbByIdHas(dbRecords, row.id)
  THEN [kind |-> "matched", record |-> dbRecords[row.id]]
  ELSE IF Truthy(row.checkNumber)
  THEN LET matches == dbByCheckNumber(dbRecords, row.checkNumber)
       IN IF Cardinality(matches) = 1
          THEN [kind |-> "matched",
                record |-> dbRecords[CHOOSE i \in matches : TRUE]]
          ELSE IF Cardinality(matches) > 1
          THEN [kind |-> "warning",
                entry |-> [row |-> row.rowNumber,
                           checkNumber |-> row.checkNumber,
                           message |-> MsgAmbiguous(row.checkNumber)]]
          ELSE [kind |-> "warning",
                entry |-> [row |-> row.rowNumber,
                           checkNumber |-> row.checkNumber,
                           message |-> MsgCheckNotFound(row.checkNumber)]]
  ELSE IF Truthy(row.id)
  THEN [kind |-> "warning",
        entry |-> [row |-> row.rowNumber, message |-> MsgIdNotFound(row.id)]]
  ELSE [kind |-> "none"]

\* Mutant: of several records with the check number the first is taken.
MatchRow_TakesFirst(row, dbRecords) ==
  IF Truthy(row.id) /\ dbByIdHas(dbRecords, row.id)
  THEN [kind |-> "matched", record |-> dbRecords[row.id]]
  ELSE IF Truthy(row.id) /\ ~dbByIdHas(dbRecords, row.id)
  THEN [kind |-> "warning",
        entry |-> [row |-> row.rowNumber, message |-> MsgIdNotFound(row.id)]]
  ELSE IF Truthy(row.checkNumber)
  THEN LET matches == dbByCheckNumber(dbRecords, row.checkNumber)
       IN IF Cardinality(matches) >= 1
          THEN [kind |-> "matched",
                record |-> dbRecords[CHOOSE i \in matches : TRUE]]
          ELSE [kind |-> "warning",
                entry |-> [row |-> row.rowNumber,
                           checkNumber |-> row.checkNumber,
                           message |-> MsgCheckNotFound(row.checkNumber)]]
  ELSE [kind |-> "none"]

\* The matching step of the loop body for one parsed row: the matched
\* record, a warning (continue), or nothing (matchedRecord stays null).
MatchRow(row, dbRecords) ==
  IF Truthy(row.id) /\ dbByIdHas(dbRecords, row.id)
  THEN [kind |-> "matched", record |-> dbRecords[row.id]]
  ELSE IF Truthy(row.id) /\ ~dbByIdHas(dbRecords, row.id)
  THEN [kind |-> "warning",
        entry |-> [row |-> row.rowNumber, message |-> MsgIdNotFound(row.id)]]
  ELSE IF Truthy(row.checkNumber)
  THEN LET matches == dbByCheckNumber(dbRecords, row.checkNumber)
       IN IF Cardinality(matches) = 1
          THEN [kind |-> "matched",
                record |-> dbRecords[CHOOSE i \in matches : TRUE]]
          ELSE IF Cardinality(matches) > 1
          THEN [kind |-> "warning",
                entry |-> [row |-> row.rowNumber,
                           checkNumber |-> row.checkNumber,
                           message |-> MsgAmbiguous(row.checkNumber)]]
          ELSE [kind |-> "warning",
                entry |-> [row |-> row.rowNumber,
                           checkNumber |-> row.checkNumber,
                           message |-> MsgCheckNotFound(row.checkNumber)]]
  ELSE [kind |-> "none"]

\* Mutant: the status is compared without regard to case.
InvalidStatus_IgnoreCase(row) ==
  /\ Truthy(row.status)
  /\ \A k \in 1..Len(VALID_STATUSES) :
       ToLowerCase(VALID_STATUSES[k]) # ToLowerCase(row.status)

\* `row.status && !VALID_STATUSES.includes(row.status)`
InvalidStatus(row) == Truthy(row.status) /\ ~Includes(VALID_STATUSES, row.status)

\* Mutant: an empty notes cell is taken for an absent one.
NotesDiffers_EmptyIsAbsent(row, rec) ==
  Truthy(row.notes) /\ row.notes # OrElse(rec.notes, "")

NotesDiffers(row, rec) ==
  row.notes # UNDEFINED /\ row.notes # OrElse(rec.notes, "")

StatusDiffers(row, rec) ==
  Truthy(row.status) /\ row.status # rec.completion_status

\* The diff of one matched row: a function from the changed fields to
\* {from, to}.
ComputeChanges(row, rec) ==
  LET fields == {f \in {"notes", "completion_status"} :
                   IF f = "notes" THEN NotesDiffers(row, rec)
                   ELSE StatusDiffers(row, rec)}
  IN [f \in fields |->
        IF f = "notes"
        THEN [from |-> OrElse(rec.notes, ""), to |-> row.notes]
        ELSE [from |-> rec.completion_status, to |-> row.status]]

\* One iteration of the match-and-diff loop.
RowOutcome(row, dbRecords) ==
  LET m == MatchRow(row, dbRecords)
  IN IF m.kind # "matched" THEN m
     ELSE IF InvalidStatus(row)
     THEN [kind |-> "warning",
           entry |-> [row |-> row.rowNumber,
                      checkNumber |-> m.record.check_number,
                      message |-> MsgInvalidStatus(row.status)]]
     ELSE LET changes == ComputeChanges(row, m.record)
          IN IF DOMAIN changes = {}
             THEN [kind |-> "skipped",
                   entry |-> [row |-> row.rowNumber, id |-> m.record.id,
                              reason |-> "No changes"]]
             ELSE [kind |-> "update",
                   entry |-> [row |-> row.rowNumber, id |-> m.record.id,
                              checkNumber |-> m.record.check_number,
                              changes |-> changes]]

RECURSIVE Collect_Reversed(_, _)
\* Mutant: each entry is put in front of the list.
Collect_Reversed(outcomes, kind) ==
  IF Len(outcomes) = 0 THEN <<>>
  ELSE Collect_Reversed(Tail(outcomes), kind)
         \o (IF Head(outcomes).kind = kind THEN <<Head(outcomes).entry>> ELSE <<>>)

\* The entries of one kind among the outcomes, in the order of the rows.
RECURSIVE Collect(_, _)
Collect(outcomes, kind) ==
  IF Len(outcomes) = 0 THEN <<>>
  ELSE (IF Head(outcomes).kind = kind THEN <<Head(outcomes).entry>> ELSE <<>>)
         \o Collect(Tail(outcomes), kind)

\* The whole match-and-diff loop.
MatchAndDiff(rows, dbRecords) ==
  LET outcomes == [k \in 1..Len(rows) |-> RowOutcome(rows[k], dbRecords)]
  IN [updates |-> Collect(outcomes, "update"),
      warnings |-> Collect(outcomes, "warning"),
      skipped |-> Collect(outcomes, "skipped")]

\* Mutant: sign_off_date is part of every payload.
Payload_AlwaysSignOff(upd) ==
  LET fields ==
        (IF "notes" \in DOMAIN upd.changes THEN {"notes"} ELSE {})
          \cup (IF "completion_status" \in DOMAIN upd.changes
                THEN {"completion_status"} ELSE {})
          \cup {"sign_off_date"}
  IN [f \in fields |->
        IF f = "notes" THEN upd.changes.notes.to
        ELSE IF f = "completion_status" THEN upd.changes.completion_status.to
        ELSE IF "completion_status" \in DOMAIN upd.changes
                /\ upd.changes.completion_status.to = "Complete" THEN NowISO
        ELSE NULL]

\* Mutant: the payload carries the `from` value of the notes change.
Payload_NotesFrom(upd) ==
  LET fields ==
        (IF "notes" \in DOMAIN upd.changes THEN {"notes"} ELSE {})
          \cup (IF "completion_status" \in DOMAIN upd.changes
                THEN {"completion_status", "sign_off_date"} ELSE {})
  IN [f \in fields |->
        IF f = "notes" THEN upd.changes.notes.from
        ELSE IF f = "completion_status" THEN upd.changes.completion_status.to
        ELSE IF upd.changes.completion_status.to = "Complete" THEN NowISO
        ELSE NULL]

\* Mutant: every change of the status stamps the sign-off date.
Payload_StampsEveryStatus(upd) ==
  LET fields ==
        (IF "notes" \in DOMAIN upd.changes THEN {"notes"} ELSE {})
          \cup (IF "completion_status" \in DOMAIN upd.changes
                THEN {"completion_status", "sign_off_date"} ELSE {})
  IN [f \in fields |->
        IF f = "notes" THEN upd.changes.notes.to
        ELSE IF f = "completion_status" THEN upd.changes.completion_status.to
        ELSE NowISO]

\* The update payload built for one update in apply mode.
Payload(upd) ==
  LET fields ==
        (IF "notes" \in DOMAIN upd.changes THEN {"notes"} ELSE {})
          \cup (IF "completion_status" \in DOMAIN upd.changes
                THEN {"completion_status", "sign_off_date"} ELSE {})
  IN [f \in fields |->
        IF f = "notes" THEN upd.changes.notes.to
        ELSE IF f = "completion_status" THEN upd.changes.completion_status.to
        ELSE IF upd.changes.completion_status.to = "Complete" THEN NowISO
        ELSE NULL]

\* Mutant: the update is issued without its filter on the id.
StoreUpdate_EveryRecord(store, id, payload) ==
  [i \in DOMAIN store |->
     [f \in DOMAIN store[i] |->
        IF f \in DOMAIN payload THEN payload[f] ELSE store[i][f]]]

\* `.update(payload).eq('id', id)` when the store reports no error: the
\* record with that id, if there is one, takes the payload's fields.
StoreUpdate(store, id, payload) ==
  [i \in DOMAIN store |->
     IF i = id
     THEN [f \in DOMAIN store[i] |->
             IF f \in DOMAIN payload THEN payload[f] ELSE store[i][f]]
     ELSE store[i]]

-----------------------------------------------------------------------------
(* Inputs: the uploaded file and the initial content of the store.         *)

IdCells == {NULL, "r1 "}
CheckCells == {NULL, "100"}
NotesCells == {NULL, " a"}
StatusCells == {NULL, "Complete", "Pending", "complete"}

\* The values a cell of column c may hold under header row h.  A sheet
\* with the id, notes and status columns of the monthly report has an id in
\* every row.
CellsOf(h, c) ==
  LET col == HeaderColumns[h]
  IN IF c = col.id
     THEN (IF col.notes # 0 /\ col.status # 0 THEN IdCells \ {NULL} ELSE IdCells)
     ELSE IF c = col.check THEN CheckCells
     ELSE IF c = col.notes THEN NotesCells
     ELSE IF c = col.status THEN StatusCells
     ELSE {NULL}

\* The data rows that fit header row h.
DataRows(h) ==
  {r \in [1..Len(h) -> IdCells \cup CheckCells \cup NotesCells \cup StatusCells] :
     \A c \in 1..Len(h) : r[c] \in CellsOf(h, c)}

RECURSIVE SheetsWith(_, _)
\* The sheets with header row h and exactly n data rows.
SheetsWith(h, n) ==
  IF n = 0 THEN {<<h>>}
  ELSE {Append(s, r) : s \in SheetsWith(h, n - 1), r \in DataRows(h)}

Sheets == UNION {SheetsWith(h, n) : h \in HeaderRows, n \in 0..MaxRows}

\* The `file` field of the form data: absent, a workbook without a
\* worksheet, or a workbook whose first worksheet is `sheet`.
Files ==
  {[present |-> FALSE, hasSheet |-> FALSE, sheet |-> <<>>],
   [present |-> TRUE, hasSheet |-> FALSE, sheet |-> <<>>]}
    \cup {[present |-> TRUE, hasSheet |-> TRUE, sheet |-> s] : s \in Sheets}

\* The `action` field of the form data; NULL when the field is absent.
Actions == {"preview", "apply", NULL}

Rec(cn, notes, status) ==
  [check_number |-> cn, notes |-> notes, completion_status |-> status,
   sign_off_date |-> IF status = "Complete" THEN Timestamp(0) ELSE NULL]

\* Initial contents of void_checks: check number 100 held by one record,
\* by two records, or by none; record r1 present or not.
Stores ==
  {("r1" :> Rec("100", NULL, "Pending")) @@ ("r2" :> Rec("200", "a", "Complete")),
   ("r1" :> Rec("100", NULL, "Pending")) @@ ("r2" :> Rec("100", "a", "Complete")),
   ("r2" :> Rec("200", "a", "Complete")),
   ("r2" :> Rec("100", "a", "Pending"))}

-----------------------------------------------------------------------------
(* State.                                                                  *)

VARIABLES
  file,       \* the spreadsheet the operator uploads
  db,         \* void_checks: id -> record
  pc,         \* "idle", "apply" (inside the apply loop), "done" (responded)
  action,     \* the action field of the current request
  parsedRows, \* the rows parsed by the current request
  dbRecords,  \* the snapshot fetched by the current request
  updates, warnings, skipped,   \* lists of the match-and-diff loop
  applied, errors,              \* lists of the apply loop
  idx,        \* position of the apply loop in updates
  writes,     \* the store updates issued by the current request, in order
  response,   \* the response of the current request
  dbAtStart,  \* the store when the current request was received
  form,       \* the new-entry form of the user interface
  cron,       \* the monthly report handler and its configuration
  view,       \* the submissions view of the user interface
  storage     \* the attachments bucket and the upload request

vars == <<file, db, pc, action, parsedRows, dbRecords, updates, warnings, skipped,
          applied, errors, idx, writes, response, dbAtStart, clock, form,
          cron, view, storage>>

\* The components the importer and the submissions API leave alone.
others == <<form, cron, view, storage>>

\* The state of the importer's current request.
request == <<pc, action, parsedRows, dbRecords, updates, warnings, skipped,
             applied, errors, idx, writes, response, dbAtStart>>

\* The new-entry form before the user has typed anything.
EmptyForm ==
  [pc |-> "editing", checkNumber |-> "", checkAmount |-> "", ownerNumber |-> "",
   checkDate |-> "", confirmed |-> FALSE, sent |-> FALSE]

NoResponse == [status |-> 0]

\* process.env without CRON_SECRET and REPORT_RECIPIENTS.
NoEnv == [CRON_SECRET |-> UNDEFINED, REPORT_RECIPIENTS |-> UNDEFINED]

\* The report handler before its first request, under configuration env.
\* pc: "idle", "send" (the records are fetched and there are some) or
\* "done"; fetched: the select of the current request ("no": not issued,
\* "failed", "yes"); table: the table as that select found it; emails:
\* the emails the current request has sent.
IdleCron(env) ==
  [pc |-> "idle", env |-> env, header |-> NULL, fetched |-> "no",
   pendingItems |-> <<>>, table |-> <<>>, emails |-> <<>>,
   response |-> NoResponse]

\* The submissions view before the list is loaded.  detailIndex: 0 for
\* null, else a position of `submissions`; inflight: the responses of the
\* list requests that have not arrived yet; editing: the id of the record
\* startEdit has loaded last; patched: the id saveEdit has sent last, with
\* the value of `editing` at that moment.
ClosedView ==
  [submissions |-> <<>>, inflight |-> {}, detailIndex |-> 0,
   editMode |-> FALSE, editData |-> <<>>, editing |-> "", patched |-> <<>>]

\* The attachments bucket with no object, before the first upload
\* request.  objects: the paths stored in the bucket; files: the names of
\* the files of the current request; k: the position of its loop;
\* uploaded: the paths it has stored.
EmptyBucket ==
  [objects |-> {}, pc |-> "idle", files |-> <<>>, k |-> 1, uploaded |-> <<>>,
   response |-> NoResponse]

ErrorResponse(status, error) == [status |-> status, body |-> [error |-> error]]

Init ==
  /\ file \in Files
  /\ db \in Stores
  /\ pc = "idle"
  /\ action = NULL
  /\ parsedRows = <<>>
  /\ dbRecords = <<>>
  /\ updates = <<>> /\ warnings = <<>> /\ skipped = <<>>
  /\ applied = <<>> /\ errors = <<>>
  /\ idx = 1
  /\ writes = <<>>
  /\ response = NoResponse
  /\ dbAtStart = db
  /\ clock = 1
  /\ form = EmptyForm
  /\ cron = IdleCron(NoEnv)
  /\ view = ClosedView
  /\ storage = EmptyBucket

\* Mutant: the check for a notes or status column is left out.
SchemaError_NoValueColumnCheck(f) ==
  IF ~f.present THEN ErrorResponse(400, "No file provided")
  ELSE IF ~f.hasSheet THEN ErrorResponse(400, "No worksheet found in file")
  ELSE LET col == HeaderColumns[f.sheet[1]]
       IN IF col.id = 0 /\ col.check = 0
          THEN ErrorResponse(400,
                 "Spreadsheet must have an \"ID\" or \"Check #\" column")
          ELSE IF Len(ParseSheet(f.sheet)) = 0
          THEN ErrorResponse(400, "No data rows found in spreadsheet")
          ELSE NoResponse

\* The response with which the handler returns before reading the store,
\* or NoResponse when the file passes the checks of lines 41-99.
SchemaError(f) ==
  IF ~f.present THEN ErrorResponse(400, "No file provided")
  ELSE IF ~f.hasSheet THEN ErrorResponse(400, "No worksheet found in file")
  ELSE LET col == HeaderColumns[f.sheet[1]]
       IN IF col.id = 0 /\ col.check = 0
          THEN ErrorResponse(400,
                 "Spreadsheet must have an \"ID\" or \"Check #\" column")
          ELSE IF col.notes = 0 /\ col.status = 0
          THEN ErrorResponse(400,
                 "Spreadsheet must have a \"Notes\" and/or \"Completion Status\" column")
          ELSE IF Len(ParseSheet(f.sheet)) = 0
          THEN ErrorResponse(400, "No data rows found in spreadsheet")
          ELSE NoResponse

\* Mutant: the action is compared with "Preview".
IsPreview_WrongCase(act) == act = "Preview"

\* Mutant: the comparison is negated.
IsPreview_Negated(act) == act # "preview"

\* `action === 'preview'`
IsPreview(act) == act = "preview"

\* POST up to the end of the match-and-diff loop, and to the response when
\* the request fails or is a preview.  dbError: the select reports an error;
\* schemaError, rows and d: the outcome of lines 41-81, 83-99 and 108-185.
POST(act, dbError, schemaError, rows, d) ==
  /\ pc \in {"idle", "done"}
  /\ action' = act
  /\ dbAtStart' = db
  /\ applied' = <<>> /\ errors' = <<>> /\ idx' = 1 /\ writes' = <<>>
  /\ UNCHANGED <<file, db, clock, others>>
  /\ parsedRows' = rows
  /\ IF schemaError # NoResponse
     THEN /\ ~dbError
          /\ response' = schemaError
          /\ pc' = "done"
          /\ dbRecords' = <<>>
          /\ updates' = <<>> /\ warnings' = <<>> /\ skipped' = <<>>
     ELSE IF dbError
     THEN /\ response' = [status |-> 500,
                          body |-> [error |-> "Failed to process spreadsheet",
                                    message |-> "select failed"]]
          /\ pc' = "done"
          /\ dbRecords' = <<>>
          /\ updates' = <<>> /\ warnings' = <<>> /\ skipped' = <<>>
     ELSE /\ dbRecords' = SnapshotOf(db)
          /\ updates' = d.updates
          /\ warnings' = d.warnings
          /\ skipped' = d.skipped
          /\ IF IsPreview(act)
             THEN /\ response' = [status |-> 200,
                                  body |-> [updates |-> d.updates,
                                            warnings |-> d.warnings,
                                            skipped |-> d.skipped]]
                  /\ pc' = "done"
             ELSE /\ response' = NoResponse
                  /\ pc' = "apply"

\* A request with the file: the checks of lines 41-99, then lines 101-190.
Post ==
  LET schemaError == SchemaError(file)
      rows == IF schemaError = NoResponse THEN ParseSheet(file.sheet) ELSE <<>>
      d == MatchAndDiff(rows, SnapshotOf(db))
  IN \E act \in Actions, dbError \in BOOLEAN :
       POST(act, dbError, schemaError, rows, d)

\* The record of the store with that id, as a sequence of length 0 or 1.
Lookup(store, id) == IF id \in DOMAIN store THEN <<store[id]>> ELSE <<>>

\* The stored value of a field the update changes is no longer its `from`.
Stale(store, upd) ==
  /\ upd.id \in DOMAIN store
  /\ \E f \in DOMAIN upd.changes :
       OrElse(store[upd.id][f], "") # upd.changes[f].from

\* Mutant: the update is filtered on the `from` values too, so that it
\* leaves a record alone that has changed since the snapshot.
ApplyWrite_ChecksFrom(err) ==
  /\ pc = "apply"
  /\ idx <= Len(updates)
  /\ LET upd == updates[idx]
         payload == Payload(upd)
     IN /\ writes' = Append(writes, [id |-> upd.id, row |-> upd.row,
                                     payload |-> payload,
                                     before |-> Lookup(db, upd.id)])
        /\ IF err
           THEN /\ errors' = Append(errors, [id |-> upd.id, error |-> "update failed"])
                /\ UNCHANGED <<applied, db>>
           ELSE /\ applied' = Append(applied, [id |-> upd.id,
                                               checkNumber |-> upd.checkNumber])
                /\ db' = IF Stale(db, upd) THEN db
                         ELSE StoreUpdate(db, upd.id, payload)
                /\ UNCHANGED errors
  /\ idx' = idx + 1
  /\ UNCHANGED <<file, pc, action, parsedRows, dbRecords, updates, warnings, skipped,
                 response, dbAtStart, clock, others>>

\* Mutant: the loop is left at the first write the store rejects.
ApplyWrite_StopsAtError(err) ==
  /\ pc = "apply"
  /\ idx <= Len(updates)
  /\ LET upd == updates[idx]
         payload == Payload(upd)
     IN /\ writes' = Append(writes, [id |-> upd.id, row |-> upd.row,
                                     payload |-> payload,
                                     before |-> Lookup(db, upd.id)])
        /\ IF err
           THEN /\ errors' = Append(errors, [id |-> upd.id, error |-> "update failed"])
                /\ idx' = Len(updates) + 1
                /\ UNCHANGED <<applied, db>>
           ELSE /\ applied' = Append(applied, [id |-> upd.id,
                                               checkNumber |-> upd.checkNumber])
                /\ db' = StoreUpdate(db, upd.id, payload)
                /\ idx' = idx + 1
                /\ UNCHANGED errors
  /\ UNCHANGED <<file, pc, action, parsedRows, dbRecords, updates, warnings, skipped,
                 response, dbAtStart, clock, others>>

\* One iteration of the apply loop: the update of updates[idx] is issued
\* and the store reports an error (err) or not.
ApplyWrite(err) ==
  /\ pc = "apply"
  /\ idx <= Len(updates)
  /\ LET upd == updates[idx]
         payload == Payload(upd)
     IN /\ writes' = Append(writes, [id |-> upd.id, row |-> upd.row,
                                     payload |-> payload,
                                     before |-> Lookup(db, upd.id)])
        /\ IF err
           THEN /\ errors' = Append(errors, [id |-> upd.id, error |-> "update failed"])
                /\ UNCHANGED <<applied, db>>
           ELSE /\ applied' = Append(applied, [id |-> upd.id,
                                               checkNumber |-> upd.checkNumber])
                /\ db' = StoreUpdate(db, upd.id, payload)
                /\ UNCHANGED errors
  /\ idx' = idx + 1
  /\ UNCHANGED <<file, pc, action, parsedRows, dbRecords, updates, warnings, skipped,
                 response, dbAtStart, clock, others>>

\* The end of the apply loop: the apply response.
ApplyRespond ==
  /\ pc = "apply"
  /\ idx > Len(updates)
  /\ response' = [status |-> 200,
                  body |-> [applied |-> applied, errors |-> errors,
                            warnings |-> warnings, skipped |-> skipped]]
  /\ pc' = "done"
  /\ UNCHANGED <<file, db, action, parsedRows, dbRecords, updates, warnings, skipped,
                 applied, errors, idx, writes, dbAtStart, clock, others>>

Next ==
  \/ Post
  \/ \E err \in BOOLEAN : ApplyWrite(err)
  \/ ApplyRespond

Spec == Init /\ [][Next]_vars

-----------------------------------------------------------------------------
(* The submissions API (src/app/api/submissions/route.ts) on the same      *)
(* table.  Amounts are numbers of thousandths; a request body is a record  *)
(* whose domain is the set of the fields it carries.  The responses of     *)
(* this API, check_date, attachments, request_date and created_by are not  *)
(* part of the model.                                                      *)

\* Largest number of requests the submissions API serves; each is served
\* on a day of its own.
MaxClock == 2

\* Largest number of records of the table.
MaxRecords == 3

\* The value of parseFloat for a text that is no number; amounts are not
\* negative.
NaN == -1

Digits == "0123456789"

IsDigit(c) == \E d \in 1..10 : SubSeq(Digits, d, d) = c

DigitOf(c) == (CHOOSE d \in 1..10 : SubSeq(Digits, d, d) = c) - 1

RECURSIVE DigitPrefix(_)
\* The longest prefix of decimal digits.
DigitPrefix(s) ==
  IF Len(s) > 0 /\ IsDigit(SubSeq(s, 1, 1))
  THEN SubSeq(s, 1, 1) \o DigitPrefix(SubSeq(s, 2, Len(s)))
  ELSE ""

RECURSIVE DigitsValue(_, _)
DigitsValue(s, acc) ==
  IF Len(s) = 0 THEN acc
  ELSE DigitsValue(SubSeq(s, 2, Len(s)), 10 * acc + DigitOf(SubSeq(s, 1, 1)))

\* parseFloat of an unsigned decimal text, in thousandths (further digits
\* are dropped); NaN when the text does not start with a number.
ParseFloat(s) ==
  LET t == TrimStart(s)
      ip == DigitPrefix(t)
      rest == SubSeq(t, Len(ip) + 1, Len(t))
      fp == IF Len(rest) > 0 /\ SubSeq(rest, 1, 1) = "."
            THEN DigitPrefix(SubSeq(rest, 2, Len(rest))) ELSE ""
  IN IF ip = "" /\ fp = "" THEN NaN
     ELSE DigitsValue(ip, 0) * 1000 + DigitsValue(SubSeq(fp \o "000", 1, 3), 0)

\* The JSON text of a stored amount (a number of cents).
NumberText(m) ==
  LET cents == (m % 1000) \div 10
  IN ToString(m \div 1000)
       \o (IF cents = 0 THEN ""
           ELSE IF cents % 10 = 0 THEN "." \o ToString(cents \div 10)
           ELSE IF cents < 10 THEN ".0" \o ToString(cents)
           ELSE "." \o ToString(cents))

\* NUMERIC(12, 2): an amount is stored rounded to the cent.
Numeric2(m) == ((m + 5) \div 10) * 10

\* `body.f`: undefined when the body has no field f.
Field(body, f) == IF f \in DOMAIN body THEN body[f] ELSE UNDEFINED

\* A record of void_checks with the columns the submissions API edits.
Submission(cn, amount, owner, notes, status, signedOff) ==
  [check_number |-> cn, check_amount |-> amount, owner_number |-> owner,
   notes |-> notes, completion_status |-> status, sign_off_date |-> signedOff]

\* The table rejects a row or an update that breaks a NOT NULL or the
\* CHECK constraint.
Violates(row) ==
  \/ \E f \in DOMAIN row \cap {"check_number", "owner_number"} :
       row[f] \in {NULL, UNDEFINED}
  \/ "check_amount" \in DOMAIN row /\ row.check_amount = NaN
  \/ "completion_status" \in DOMAIN row
       /\ ~Includes(VALID_STATUSES, row.completion_status)

\* The values the columns take from a row or payload the table accepts.
Stored(row) ==
  [f \in DOMAIN row |->
     IF f = "check_amount" THEN Numeric2(row[f]) ELSE row[f]]

\* gen_random_uuid(): an id no record has.
NewId(store) == "r" \o ToString(Cardinality(DOMAIN store) + 1)

\* `.insert([submission])`
Insert(store, row) ==
  IF Violates(row) THEN store ELSE store @@ (NewId(store) :> Stored(row))

\* `.update(payload).in('id', ids)` and `.update(payload).eq('id', id)`
StoreUpdateIn(store, ids, payload) ==
  IF Violates(payload) THEN store
  ELSE [i \in DOMAIN store |->
          IF i \in ids
          THEN [f \in DOMAIN store[i] |->
                  IF f \in DOMAIN payload THEN Stored(payload)[f] ELSE store[i][f]]
          ELSE store[i]]

\* The row POST inserts for a request body.
NewSubmission(body) ==
  [check_number |-> Field(body, "check_number"),
   check_amount |-> ParseFloat(Field(body, "check_amount")),
   owner_number |-> Field(body, "owner_number"),
   notes |-> OrElse(Field(body, "notes"), ""),
   completion_status |-> "Pending",
   sign_off_date |-> NULL]

\* POST of the submissions API.
CreateSubmission(body) ==
  /\ clock <= MaxClock
  /\ Cardinality(DOMAIN db) < MaxRecords
  /\ clock' = clock + 1
  /\ db' = Insert(db, NewSubmission(body))
  /\ UNCHANGED <<file, request, others>>

\* The payload of the bulk status update.
BulkPayload(body) ==
  [completion_status |-> body.completion_status,
   sign_off_date |-> IF body.completion_status = "Complete" THEN NowISO ELSE NULL]

\* Mutant: the single update writes the status without the sign-off date.
SinglePayload_StatusAlone(body) ==
  LET edits == {f \in {"check_number", "check_amount", "owner_number", "notes"} :
                  Field(body, f) # UNDEFINED}
      status == IF Truthy(Field(body, "completion_status"))
                THEN {"completion_status"} ELSE {}
  IN [f \in edits \cup status |->
        IF f = "check_amount" THEN ParseFloat(body.check_amount) ELSE body[f]]

\* The payload of the single update: the edit fields the body carries and,
\* with a status, the status and the sign-off date.
SinglePayload(body) ==
  LET edits == {f \in {"check_number", "check_amount", "owner_number", "notes"} :
                  Field(body, f) # UNDEFINED}
      status == IF Truthy(Field(body, "completion_status"))
                THEN {"completion_status", "sign_off_date"} ELSE {}
  IN [f \in edits \cup status |->
        IF f = "check_amount" THEN ParseFloat(body.check_amount)
        ELSE IF f = "sign_off_date"
        THEN (IF body.completion_status = "Complete" THEN NowISO ELSE NULL)
        ELSE body[f]]

\* PATCH of the submissions API: the bulk status update, 400 without an
\* id, or the single update.
PatchStore(body) ==
  /\ clock <= MaxClock
  /\ clock' = clock + 1
  /\ IF "ids" \in DOMAIN body /\ Truthy(Field(body, "completion_status"))
     THEN db' = StoreUpdateIn(db, body.ids, BulkPayload(body))
     ELSE IF ~Truthy(Field(body, "id")) THEN UNCHANGED db
     ELSE db' = StoreUpdateIn(db, {body.id}, SinglePayload(body))

\* A PATCH request of a client that is not part of the model.
PATCH(body) == PatchStore(body) /\ UNCHANGED <<file, request, others>>

\* startEdit: the edit data of the detail modal, copied from the record.
EditData(sub) ==
  [check_number |-> sub.check_number,
   check_amount |-> NumberText(sub.check_amount),
   owner_number |-> sub.owner_number,
   notes |-> sub.notes,
   completion_status |-> sub.completion_status]

\* saveEdit: the PATCH of the detail modal for record id, after the user
\* has overwritten the fields of `edit`.
SaveEdit(id, edit) ==
  LET editData == edit @@ EditData(db[id])
  IN /\ Truthy(editData.check_number) /\ Truthy(editData.owner_number)
     /\ PATCH(("id" :> id) @@ editData)

\* Request bodies of the model.
CreateBodies ==
  {[check_number |-> "300", check_amount |-> "300.126", owner_number |-> "9"]}

PatchBodies ==
  {[id |-> "r1", completion_status |-> st] :
     st \in {"Complete", "Request Invalidated", "complete"}}
    \cup {[ids |-> {"r1", "r2"}, completion_status |-> "Pending"],
          [id |-> "r2", notes |-> "b"],
          [notes |-> "b"]}

\* The fields the user overwrites in the detail modal.
Edits == {[notes |-> "b", check_amount |-> "250.5"]}

\* The importer, the table, the clock and the form before the first
\* request, with the file one of `files` and the table one of `tables`.
InitImporter(files, tables) ==
  /\ file \in files
  /\ db \in tables
  /\ pc = "idle"
  /\ action = NULL
  /\ parsedRows = <<>>
  /\ dbRecords = <<>>
  /\ updates = <<>> /\ warnings = <<>> /\ skipped = <<>>
  /\ applied = <<>> /\ errors = <<>>
  /\ idx = 1
  /\ writes = <<>>
  /\ response = NoResponse
  /\ dbAtStart = db
  /\ clock = 1
  /\ form = EmptyForm

\* The state before the first request, the report handler not configured.
InitWith(files, tables) ==
  /\ InitImporter(files, tables)
  /\ cron = IdleCron(NoEnv)
  /\ view = ClosedView
  /\ storage = EmptyBucket

\* The sheet of the store specification: a report with ids.
StoreFiles ==
  {[present |-> TRUE, hasSheet |-> TRUE,
    sheet |-> << <<"ID", "Notes", "Completion Status">>,
                 <<"r1", "b", "Complete">>,
                 <<"r2", "b", "Complete">> >>]}

\* The table before the first request: a pending record and a record
\* signed off earlier.
Tables ==
  {("r1" :> Submission("100", 100000, "7", "", "Pending", NULL))
     @@ ("r2" :> Submission("200", 200000, "8", "a", "Complete", Timestamp(0)))}

InitStore == InitWith(StoreFiles, Tables)

NextStore ==
  \/ Post
  \/ \E err \in BOOLEAN : ApplyWrite(err)
  \/ ApplyRespond
  \/ \E body \in CreateBodies : CreateSubmission(body)
  \/ \E body \in PatchBodies : PATCH(body)
  \/ \E id \in DOMAIN db, edit \in Edits : SaveEdit(id, edit)

SpecStore == InitStore /\ [][NextStore]_vars

-----------------------------------------------------------------------------
(* The importer beside the deletion of records.                            *)

\* DELETE of the submissions API: 400 without an id; otherwise the record
\* with that id, if there is one, is removed unless the store reports an
\* error (dbError).
DELETE(body, dbError) ==
  /\ IF ~Truthy(Field(body, "id")) \/ dbError THEN UNCHANGED db
     ELSE db' = [i \in DOMAIN db \ {body.id} |-> db[i]]
  /\ UNCHANGED <<file, request, clock, others>>

\* Request bodies of the deletions.
DeleteBodies == {[id |-> "r1"], [id |-> "r2"], [id |-> ""]}

NextDelete ==
  \/ Post
  \/ \E err \in BOOLEAN : ApplyWrite(err)
  \/ ApplyRespond
  \/ \E body \in DeleteBodies, dbError \in BOOLEAN : DELETE(body, dbError)

SpecDelete == InitStore /\ [][NextDelete]_vars

-----------------------------------------------------------------------------
(* The importer on edited monthly reports.                                 *)

\* Edited reports: with ids, with check numbers, and with both, each with
\* a blank row between its data rows.
ReportSheets ==
  {<< <<"ID", "Notes", "Completion Status">>,
      <<"r1", "b", "Complete">>,
      <<" ", NULL, "  ">>,
      <<"r2 ", "b", "Complete">>,
      <<"r9", "b", "Pending">> >>,
   << <<"Check #", " completion_status ">>,
      <<"100", "Request Invalidated">>,
      <<NULL, NULL>>,
      <<"200", "Pending">>,
      <<"300", "Complete">> >>,
   << <<"id", "Check Number", "NOTES">>,
      <<"r1", "100", "b">>,
      <<NULL, NULL, " ">>,
      <<NULL, "200", "b">> >>}

ReportFiles ==
  {[present |-> TRUE, hasSheet |-> TRUE, sheet |-> s] : s \in ReportSheets}

\* Tables the reports are applied to.
ReportTables ==
  Tables \cup
    {("r1" :> Submission("100", 100000, "7", "b", "Complete", Timestamp(0)))
       @@ ("r2" :> Submission("200", 200000, "8", "b", "Request Invalidated", NULL))
       @@ ("r3" :> Submission("300", 300000, "9", "", "Pending", NULL))}

InitReport == InitWith(ReportFiles, ReportTables)

SpecReport == InitReport /\ [][Next]_vars

-----------------------------------------------------------------------------
(* The new-entry form (NewEntryForm of src/unnamed/part_001).  form.pc is  *)
(* "editing", "confirm" (the duplicate warning is shown) or "submitting";  *)
(* form.confirmed: the user has confirmed the warning; form.sent: the      *)
(* create request of the last submit has been sent.  Attachments are not   *)
(* part of the model.                                                      *)

\* Values the user enters.
FormChecks == {"", "100", " 100", "300"}
FormAmounts == {"", "100.00", "100.004", "100.01"}
FormOwners == {"", "7 ", "8"}
FormDates == {"", "01-18-2026"}

\* Tables the form is submitted against.
FormTables ==
  {("r1" :> Submission("100 ", 100000, "7", "", "Pending", NULL)),
   ("r1" :> Submission("100", 100010, "7", "", "Pending", NULL))
     @@ ("r2" :> Submission("300", 100000, "8", "", "Complete", Timestamp(0)))}

InitForm ==
  InitWith({[present |-> FALSE, hasSheet |-> FALSE, sheet |-> <<>>]}, FormTables)

\* The user fills the fields of the form.
FillForm(cn, amount, owner, date) ==
  /\ form.pc = "editing"
  /\ form' = [EmptyForm EXCEPT !.checkNumber = cn, !.checkAmount = amount,
                               !.ownerNumber = owner, !.checkDate = date]
  /\ UNCHANGED <<file, db, request, clock, cron, view, storage>>

Abs(n) == IF n < 0 THEN -n ELSE n

\* `existing.find(...)`: the ids of the submissions with the form's
\* trimmed check number and owner number and an amount less than 0.01
\* from the form's.
FindDuplicate(existing, f) ==
  LET amt == ParseFloat(f.checkAmount)
  IN {i \in DOMAIN existing :
        /\ Trim(existing[i].check_number) = Trim(f.checkNumber)
        /\ Trim(existing[i].owner_number) = Trim(f.ownerNumber)
        /\ amt # NaN
        /\ Abs(existing[i].check_amount - amt) < 10}

\* handleSubmit up to the duplicate warning or the create request.
\* lookupFails: the fetch of the existing submissions throws.
HandleSubmit(lookupFails) ==
  /\ form.pc = "editing"
  /\ Cardinality(DOMAIN db) < MaxRecords
  /\ Truthy(form.checkNumber) /\ Truthy(form.ownerNumber)
  /\ Truthy(form.checkAmount) /\ Truthy(form.checkDate)
  /\ form' = [form EXCEPT
                !.confirmed = FALSE,
                !.sent = FALSE,
                !.pc = IF ~lookupFails /\ FindDuplicate(db, form) # {}
                       THEN "confirm" ELSE "submitting"]
  /\ UNCHANGED <<file, db, request, clock, cron, view, storage>>

\* The user answers the duplicate warning.
Confirm(ok) ==
  /\ form.pc = "confirm"
  /\ form' = [form EXCEPT !.confirmed = ok,
                          !.pc = IF ok THEN "submitting" ELSE "editing"]
  /\ UNCHANGED <<file, db, request, clock, cron, view, storage>>

\* The body of the create request.
FormBody(f) ==
  [check_number |-> f.checkNumber, check_amount |-> f.checkAmount,
   owner_number |-> f.ownerNumber, notes |-> ""]

\* handleSubmit from the create request on.  The form is emptied after a
\* success and kept after a failure.
SendCreate(createFails) ==
  /\ form.pc = "submitting"
  /\ IF createFails
     THEN /\ form' = [form EXCEPT !.pc = "editing", !.sent = TRUE]
          /\ UNCHANGED db
     ELSE /\ form' = [EmptyForm EXCEPT !.confirmed = form.confirmed, !.sent = TRUE]
          /\ db' = Insert(db, NewSubmission(FormBody(form)))
  /\ UNCHANGED <<file, request, clock, cron, view, storage>>

NextForm ==
  \/ \E cn \in FormChecks, amount \in FormAmounts, owner \in FormOwners,
        date \in FormDates : FillForm(cn, amount, owner, date)
  \/ \E lookupFails \in BOOLEAN : HandleSubmit(lookupFails)
  \/ \E ok \in BOOLEAN : Confirm(ok)
  \/ \E createFails \in BOOLEAN : SendCreate(createFails)

SpecForm == InitForm /\ [][NextForm]_vars

-----------------------------------------------------------------------------
(* The monthly report (GET of src/unnamed/part_003) beside the importer.   *)
(* The workbook is its first sheet, a sequence of rows of cell texts; the  *)
(* styling of the sheet and the text of the email are not part of the      *)
(* model.                                                                  *)

\* `${v}` in a template literal.
TemplateText(v) ==
  IF v = UNDEFINED THEN "undefined" ELSE IF v = NULL THEN "null" ELSE v

\* Mutant: a handler without a configured secret turns every caller away.
Unauthorized_NeedsSecret(header, env) ==
  ~Truthy(env.CRON_SECRET) \/ header # "Bearer " \o env.CRON_SECRET

\* `authHeader !== \`Bearer ${process.env.CRON_SECRET}\``
Unauthorized(header, env) ==
  header # "Bearer " \o TemplateText(env.CRON_SECRET)

\* A text of two digits without its leading zero.
NoLeadingZero(dd) == IF SubSeq(dd, 1, 1) = "0" THEN SubSeq(dd, 2, 2) ELSE dd

\* `new Date(v).toLocaleDateString('en-US')` of a date or timestamp text
\* that starts with YYYY-MM-DD, in UTC.
LocaleDate(v) ==
  NoLeadingZero(SubSeq(v, 6, 7)) \o "/" \o NoLeadingZero(SubSeq(v, 9, 10))
    \o "/" \o SubSeq(v, 1, 4)

\* The day of the month of a timestamp; the timestamps of the model are of
\* one month, so that the day orders them.
DayOf(ts) == DigitsValue(SubSeq(ts, 9, 10), 0)

RECURSIVE OrderAscending(_, _)
\* Mutant: the records are ordered by ascending request date.
OrderAscending(store, ids) ==
  IF ids = {} THEN <<>>
  ELSE LET first == CHOOSE i \in ids :
                      \A j \in ids : DayOf(store[i].request_date)
                                        <= DayOf(store[j].request_date)
       IN <<[id |-> first] @@ store[first]>>
            \o OrderAscending(store, ids \ {first})

RECURSIVE OrderDescending(_, _)
\* `.order('request_date', { ascending: false })` of the records `ids`.
OrderDescending(store, ids) ==
  IF ids = {} THEN <<>>
  ELSE LET first == CHOOSE i \in ids :
                      \A j \in ids : DayOf(store[j].request_date)
                                        <= DayOf(store[i].request_date)
       IN <<[id |-> first] @@ store[first]>>
            \o OrderDescending(store, ids \ {first})

\* The select of the handler: the Pending records, latest request first.
PendingItems(store) ==
  OrderDescending(store,
    {i \in DOMAIN store : store[i].completion_status = "Pending"})

\* The row `sheet.addRow` makes of one item.
ReportRow(item) ==
  <<item.id, item.check_number, NumberText(item.check_amount),
    item.owner_number,
    IF Truthy(item.check_date) THEN LocaleDate(item.check_date) ELSE "",
    OrElse(item.notes, ""),
    item.completion_status,
    IF Truthy(item.request_date) THEN LocaleDate(item.request_date) ELSE "",
    item.created_by>>

\* The sheet of the workbook: the header row and a row for each item.
ReportSheet(items) ==
  <<ReportHeader>> \o [k \in 1..Len(items) |-> ReportRow(items[k])]

\* GET up to the select and its early returns.  header: the Authorization
\* header, NULL when there is none; dbError: the select reports an error.
GET(header, dbError) ==
  /\ cron.pc \in {"idle", "done"}
  /\ LET arrived == [IdleCron(cron.env) EXCEPT !.header = header]
     IN IF Unauthorized(header, cron.env)
        THEN cron' = [arrived EXCEPT !.pc = "done",
                        !.response = ErrorResponse(401, "Unauthorized")]
        ELSE IF dbError
        THEN cron' = [arrived EXCEPT !.pc = "done", !.fetched = "failed",
                        !.response =
                          [status |-> 500,
                           body |-> [error |-> "Failed to generate/send report",
                                     details |-> "select failed"]]]
        ELSE IF Len(PendingItems(db)) = 0
        THEN cron' = [arrived EXCEPT !.pc = "done", !.fetched = "yes",
                        !.table = db,
                        !.response =
                          [status |-> 200,
                           body |-> [success |-> TRUE,
                                     message |-> "No pending items to report"]]]
        ELSE cron' = [arrived EXCEPT !.pc = "send", !.fetched = "yes",
                        !.table = db, !.pendingItems = PendingItems(db)]
  /\ UNCHANGED <<file, db, request, clock, form, view, storage>>

\* The rest of GET: the workbook, the recipients and the email.
\* mailError: sendMail throws.
SendReport(mailError) ==
  /\ cron.pc = "send"
  /\ LET recipients == OrElse(cron.env.REPORT_RECIPIENTS, "")
         count == ToString(Len(cron.pendingItems))
     IN IF ~Truthy(recipients)
        THEN cron' = [cron EXCEPT !.pc = "done",
                        !.response =
                          [status |-> 500,
                           body |-> [success |-> FALSE,
                                     error |-> "No recipients configured"]]]
        ELSE IF mailError
        THEN cron' = [cron EXCEPT !.pc = "done",
                        !.response =
                          [status |-> 500,
                           body |-> [error |-> "Failed to generate/send report",
                                     details |-> "sendMail failed"]]]
        ELSE cron' = [cron EXCEPT !.pc = "done",
                        !.emails = Append(@, [to |-> recipients,
                                              sheet |-> ReportSheet(cron.pendingItems)]),
                        !.response =
                          [status |-> 200,
                           body |-> [success |-> TRUE,
                                     message |-> "Report sent with " \o count
                                                   \o " pending items",
                                     recipients |-> recipients]]]
  /\ UNCHANGED <<file, db, request, clock, form, view, storage>>

\* The operator uploads the sheet of the email as it is.
UploadReport ==
  /\ pc \in {"idle", "done"}
  /\ cron.emails # <<>>
  /\ file' = [present |-> TRUE, hasSheet |-> TRUE,
              sheet |-> cron.emails[1].sheet]
  /\ UNCHANGED <<db, request, clock, form, cron, view, storage>>

\* A record of void_checks with the columns of the report; day: the day
\* of its request.
Reported(cn, amount, owner, notes, status, signedOff, day) ==
  Submission(cn, amount, owner, notes, status, signedOff)
    @@ [check_date |-> "2026-01-05", request_date |-> Timestamp(day),
        created_by |-> "Unknown User"]

\* Tables the report is made of: pending records requested on different
\* days, with notes that begin with a space, with plain notes and with
\* none, beside records that are not pending; and a table with no
\* pending record.
CronTables ==
  {("r1" :> Reported("100", 100000, "7", "a", "Pending", NULL, 1))
     @@ ("r2" :> Reported("200", 200000, "8", "a", "Complete", Timestamp(2), 2))
     @@ ("r3" :> Reported("300", 300500, "9", " a", "Pending", NULL, 3)),
   ("r1" :> Reported("100", 100000, "7", "b", "Complete", Timestamp(2), 1))
     @@ ("r2" :> Reported("200", 200000, "8", "", "Request Invalidated", NULL, 2)),
   ("r1" :> Reported("100", 100000, "7", NULL, "Pending", NULL, 2))
     @@ ("r2" :> Reported("200", 200000, "8", "b", "Pending", NULL, 1))
     @@ ("r3" :> Reported("300", 300000, "9", "b", "Request Invalidated", NULL, 3))}

\* Configurations of the deployment.
Envs ==
  [CRON_SECRET : {UNDEFINED, "s3cret"},
   REPORT_RECIPIENTS : {UNDEFINED, "", "ops@example.com"}]

\* Authorization headers of the callers; NULL: no header.
Headers == {NULL, "s3cret", "Bearer s3cret", "Bearer wrong", "Bearer undefined"}

\* No file is chosen before a report has arrived.
NoFiles == {[present |-> FALSE, hasSheet |-> FALSE, sheet |-> <<>>]}

InitCron ==
  /\ InitImporter(NoFiles, CronTables)
  /\ cron \in {IdleCron(env) : env \in Envs}
  /\ view = ClosedView
  /\ storage = EmptyBucket

NextCron ==
  \/ \E header \in Headers, dbError \in BOOLEAN : GET(header, dbError)
  \/ \E mailError \in BOOLEAN : SendReport(mailError)
  \/ UploadReport
  \/ Post
  \/ \E err \in BOOLEAN : ApplyWrite(err)
  \/ ApplyRespond

SpecCron == InitCron /\ [][NextCron]_vars

-----------------------------------------------------------------------------
(* The submissions view (SubmissionsView of src/unnamed/part_001) beside   *)
(* deletions by other users.  Filters, the selection and the attachments   *)
(* of the edit form are not part of the model.                             *)

\* GET of the submissions API: all records, latest request first.
ListSubmissions(store) == OrderDescending(store, DOMAIN store)

\* fetchSubmissions up to the response of the list request; the response
\* is not an array when the select reports an error (dbError).
fetchSubmissions(dbError) ==
  /\ ~dbError
  /\ view' = [view EXCEPT !.inflight = @ \cup {ListSubmissions(db)}]
  /\ UNCHANGED <<file, db, request, clock, form, cron, storage>>

\* The rest of fetchSubmissions: a response arrives and replaces the
\* array.
setSubmissions ==
  /\ \E data \in view.inflight :
       view' = [view EXCEPT !.inflight = @ \ {data}, !.submissions = data]
  /\ UNCHANGED <<file, db, request, clock, form, cron, storage>>

\* `detailIndex !== null ? submissions[detailIndex] : null`, as a sequence
\* of length 0 or 1.
detailSub(v) ==
  IF v.detailIndex # 0 /\ v.detailIndex <= Len(v.submissions)
  THEN <<v.submissions[v.detailIndex]>> ELSE <<>>

\* A click on a row of the table.
openDetail(index) ==
  /\ index \in 1..Len(view.submissions)
  /\ view' = [view EXCEPT !.detailIndex = index, !.editMode = FALSE]
  /\ UNCHANGED <<file, db, request, clock, form, cron, storage>>

\* The Edit button of the detail modal.
startEdit ==
  /\ detailSub(view) # <<>>
  /\ ~view.editMode
  /\ view' = [view EXCEPT !.editMode = TRUE,
                          !.editData = EditData(detailSub(view)[1]),
                          !.editing = detailSub(view)[1].id]
  /\ UNCHANGED <<file, db, request, clock, form, cron, storage>>

\* The user types notes into the edit form.
setNotes(val) ==
  /\ detailSub(view) # <<>>
  /\ view.editMode
  /\ view' = [view EXCEPT !.editData = [@ EXCEPT !.notes = val]]
  /\ UNCHANGED <<file, db, request, clock, form, cron, storage>>

\* Mutant: the request is sent for the record the form was loaded from.
saveEdit_LoadedId(v) == v.editing

\* The id saveEdit sends: that of `submissions[detailIndex]`.
saveEditId(v) == detailSub(v)[1].id

\* The Save button of the edit form: the PATCH request and, when it
\* succeeds, the end of the edit mode and a new list request.
saveEdit ==
  /\ detailSub(view) # <<>>
  /\ view.editMode
  /\ Truthy(view.editData.check_number) /\ Truthy(view.editData.owner_number)
  /\ LET body == ("id" :> saveEditId(view)) @@ view.editData
         sent == [view EXCEPT !.patched = <<[id |-> body.id,
                                            editing |-> view.editing]>>]
     IN /\ PatchStore(body)
        /\ IF Violates(SinglePayload(body))
           THEN view' = sent
           ELSE view' = [sent EXCEPT !.editMode = FALSE,
                           !.inflight = @ \cup {ListSubmissions(db')}]
  /\ UNCHANGED <<file, request, form, cron, storage>>

\* The table the view shows.
ViewTables ==
  {("r1" :> Reported("100", 100000, "7", "", "Pending", NULL, 1))
     @@ ("r2" :> Reported("200", 200000, "8", "a", "Pending", NULL, 2))}

\* The notes the user types.
TypedNotes == {"b"}

InitView ==
  /\ InitImporter(NoFiles, ViewTables)
  /\ cron = IdleCron(NoEnv)
  /\ view = ClosedView
  /\ storage = EmptyBucket

NextView ==
  \/ \E dbError \in BOOLEAN : fetchSubmissions(dbError)
  \/ setSubmissions
  \/ \E index \in 1..MaxRecords : openDetail(index)
  \/ startEdit
  \/ \E val \in TypedNotes : setNotes(val)
  \/ saveEdit
  \/ \E body \in DeleteBodies, dbError \in BOOLEAN : DELETE(body, dbError)

SpecView == InitView /\ [][NextView]_vars

-----------------------------------------------------------------------------
(* The attachment upload (src/app/api/upload/route.ts).  A file is its     *)
(* name; Date.now() is the clock, which may or may not advance between two *)
(* files.                                                                  *)

\* The characters a file name keeps: [a-zA-Z0-9._-].
SafeChars ==
  UNION {{SubSeq(t, i, i) : i \in 1..Len(t)} :
           t \in {UpperLetters, LowerLetters, Digits, "._-"}}

RECURSIVE SafeName(_)
\* `file.name.replace(/[^a-zA-Z0-9._-]/g, '_')`
SafeName(name) ==
  IF Len(name) = 0 THEN name
  ELSE (IF SubSeq(name, 1, 1) \in SafeChars THEN SubSeq(name, 1, 1) ELSE "_")
         \o SafeName(SubSeq(name, 2, Len(name)))

\* `void-checks/${timestamp}-${safeName}`
PathOf(timestamp, name) ==
  "void-checks/" \o ToString(timestamp) \o "-" \o SafeName(name)

\* POST up to the loop: 400 without files.
UploadPOST(files) ==
  /\ storage.pc \in {"idle", "done"}
  /\ storage' =
       IF Len(files) = 0
       THEN [storage EXCEPT !.pc = "done", !.files = files, !.k = 1,
               !.uploaded = <<>>,
               !.response = ErrorResponse(400, "No files provided")]
       ELSE [storage EXCEPT !.pc = "loop", !.files = files, !.k = 1,
               !.uploaded = <<>>, !.response = NoResponse]
  /\ UNCHANGED <<file, db, request, clock, form, cron, view>>

\* The bucket when the upload of a file has failed: as it is.
AfterFailure(st) == st.objects

\* One iteration of the loop: the upload of file k.  The bucket rejects a
\* path it holds already (upsert: false) or reports another error
\* (storageError); the error ends the request with 500.
UploadFile(storageError, tick) ==
  /\ storage.pc = "loop"
  /\ storage.k <= Len(storage.files)
  /\ IF tick THEN clock <= MaxClock /\ clock' = clock + 1 ELSE UNCHANGED clock
  /\ LET path == PathOf(clock, storage.files[storage.k])
     IN IF storageError \/ path \in storage.objects
        THEN storage' =
               [storage EXCEPT
                  !.pc = "done",
                  !.objects = AfterFailure(storage),
                  !.response =
                    [status |-> 500,
                     body |-> [error |-> "Failed to upload files",
                               message |-> "upload failed"]]]
        ELSE storage' = [storage EXCEPT !.objects = @ \cup {path},
                           !.uploaded = Append(@, path), !.k = @ + 1]
  /\ UNCHANGED <<file, db, request, form, cron, view>>

\* The end of the loop: the response with the paths.
UploadRespond ==
  /\ storage.pc = "loop"
  /\ storage.k > Len(storage.files)
  /\ storage' = [storage EXCEPT !.pc = "done",
                    !.response = [status |-> 200,
                                  body |-> [paths |-> storage.uploaded]]]
  /\ UNCHANGED <<file, db, request, clock, form, cron, view>>

\* The files of the upload requests.
UploadRequests ==
  {<<>>, <<"a.pdf">>, <<"a.pdf", "b c.pdf">>, <<"a.pdf", "a.pdf">>,
   <<"b c.pdf", "a.pdf", "b_c.pdf">>}

InitUpload ==
  /\ InitImporter(NoFiles, Tables)
  /\ cron = IdleCron(NoEnv)
  /\ view = ClosedView
  /\ storage = EmptyBucket

NextUpload ==
  \/ \E files \in UploadRequests : UploadPOST(files)
  \/ \E storageError, tick \in BOOLEAN : UploadFile(storageError, tick)
  \/ UploadRespond

SpecUpload == InitUpload /\ [][NextUpload]_vars

-----------------------------------------------------------------------------
(* Vocabulary of the properties.                                           *)

\* The current request has run the match-and-diff loop.
Diffed == pc = "apply" \/ (pc = "done" /\ response.status = 200)

\* The current request has returned the apply response.
ApplyDone == pc = "done" /\ response.status = 200 /\ ~IsPreview(action)

\* The current request has returned the preview response.
PreviewDone == pc = "done" /\ response.status = 200 /\ IsPreview(action)

\* The rows the current request has parsed from the sheet.
SheetRows == {parsedRows[k] : k \in 1..Len(parsedRows)}

Entries(list) == {list[k] : k \in 1..Len(list)}

\* Number of entries of a list that are about sheet row n.
CountFor(list, n) == Cardinality({k \in 1..Len(list) : list[k].row = n})

HasEntry(list, n) == CountFor(list, n) > 0

IsEmpty(v) == v \in {NULL, UNDEFINED, ""}

StartsWith(s, prefix) ==
  Len(s) >= Len(prefix) /\ SubSeq(s, 1, Len(prefix)) = prefix

\* Ids of the snapshot records whose check number is cn.
SnapshotBucket(cn) == {i \in DOMAIN dbRecords : dbRecords[i].check_number = cn}

\* The row is resolved to a snapshot record: by its id, or, having no id,
\* by a check number that exactly one record holds.
Resolves(r) ==
  \/ ~IsEmpty(r.id) /\ r.id \in DOMAIN dbRecords
  \/ IsEmpty(r.id) /\ ~IsEmpty(r.checkNumber)
       /\ Cardinality(SnapshotBucket(r.checkNumber)) = 1

ResolvedRecord(r) ==
  IF ~IsEmpty(r.id) THEN dbRecords[r.id]
  ELSE dbRecords[CHOOSE i \in SnapshotBucket(r.checkNumber) : TRUE]

Recognized(st) == st \in {"Pending", "Complete", "Request Invalidated"}

StoredNotes(rec) == IF rec.notes = NULL THEN "" ELSE rec.notes

\* Some diffable field of the row differs from the record.
FieldDiffers(r, rec) ==
  \/ r.notes # UNDEFINED /\ r.notes # StoredNotes(rec)
  \/ ~IsEmpty(r.status) /\ r.status # rec.completion_status

-----------------------------------------------------------------------------
(* Properties of the importer.                                             *)

\* C1: a parsed row with a non-empty id that no snapshot record has gets a
\* warning citing the id and neither an update nor a skip, whatever its
\* check number is.
C1_UnknownIdWarned ==
  Diffed =>
    \A r \in SheetRows :
      (~IsEmpty(r.id) /\ r.id \notin DOMAIN dbRecords) =>
        /\ \E w \in Entries(warnings) :
             /\ w.row = r.rowNumber
             /\ w.message = "No record found for ID \"" \o r.id \o "\""
        /\ ~HasEntry(updates, r.rowNumber)
        /\ ~HasEntry(skipped, r.rowNumber)

\* A row with an unknown id whose check number exactly one record holds.
C1_Witness ==
  /\ Diffed
  /\ \E r \in SheetRows :
       /\ ~IsEmpty(r.id) /\ r.id \notin DOMAIN dbRecords
       /\ Cardinality(SnapshotBucket(r.checkNumber)) = 1
       /\ HasEntry(warnings, r.rowNumber)

\* C2: every parsed row that survives the blank-row filter is in exactly
\* one of updates, warnings, skipped.
C2_EveryRowInOneList ==
  Diffed =>
    \A r \in SheetRows :
      CountFor(updates, r.rowNumber) + CountFor(warnings, r.rowNumber)
        + CountFor(skipped, r.rowNumber) = 1

\* C3: the store is written only by requests whose action is "apply".
C3_WritesOnlyOnApply == writes # <<>> => action = "apply"

\* C4: a preview request leaves every stored record as it was.
C4_PreviewLeavesStore ==
  (pc = "done" /\ action = "preview") => (writes = <<>> /\ db = dbAtStart)

\* A preview that returns updates.
C4_Witness == PreviewDone /\ action = "preview" /\ updates # <<>>

\* C5: after an apply that persisted all its updates, the preview of the
\* same sheet returns no updates and skips, with "No changes", every row
\* the apply had an update for.  (The step from the apply's response to
\* the response of the preview that follows it.)
C5_RoundTrip ==
  [][(ApplyDone /\ errors = <<>> /\ PreviewDone')
       => /\ updates' = <<>>
          /\ \A u \in Entries(updates) :
               \E k \in Entries(skipped') :
                 k.row = u.row /\ k.reason = "No changes"]_vars

\* C6: a row with an empty id whose check number exactly one record holds
\* gets an update or a skip and never a warning.
C6_UniqueCheckNeverWarned ==
  Diffed =>
    \A r \in SheetRows :
      (IsEmpty(r.id) /\ ~IsEmpty(r.checkNumber)
         /\ Cardinality(SnapshotBucket(r.checkNumber)) = 1) =>
        /\ HasEntry(updates, r.rowNumber) \/ HasEntry(skipped, r.rowNumber)
        /\ ~HasEntry(warnings, r.rowNumber)

\* C6 as amended: such a row whose status is empty, absent or one of the
\* three recognized values gets an update when a diffable field differs
\* from the record and a "No changes" skip otherwise, and never a warning;
\* with any other status it gets a warning and neither update nor skip.
C6_UniqueCheckValidStatus ==
  Diffed =>
    \A r \in SheetRows :
      (IsEmpty(r.id) /\ ~IsEmpty(r.checkNumber)
         /\ Cardinality(SnapshotBucket(r.checkNumber)) = 1) =>
        IF IsEmpty(r.status) \/ Recognized(r.status)
        THEN /\ ~HasEntry(warnings, r.rowNumber)
             /\ HasEntry(updates, r.rowNumber) <=> FieldDiffers(r, ResolvedRecord(r))
             /\ HasEntry(skipped, r.rowNumber) <=> ~FieldDiffers(r, ResolvedRecord(r))
             /\ \A k \in Entries(skipped) :
                  k.row = r.rowNumber => k.reason = "No changes"
        ELSE /\ HasEntry(warnings, r.rowNumber)
             /\ ~HasEntry(updates, r.rowNumber)
             /\ ~HasEntry(skipped, r.rowNumber)

\* The sheet has a row matched by check number that is updated and one
\* that is skipped.
C6_Witness ==
  /\ Diffed
  /\ \E r, q \in SheetRows :
       /\ IsEmpty(r.id) /\ Cardinality(SnapshotBucket(r.checkNumber)) = 1
       /\ IsEmpty(q.id) /\ Cardinality(SnapshotBucket(q.checkNumber)) = 1
       /\ HasEntry(updates, r.rowNumber)
       /\ HasEntry(skipped, q.rowNumber)

\* C7: a row with an empty id and a check number that no record or several
\* records hold gets a warning (not found, ambiguous) and no update, and
\* no write is issued for it.
C7_ZeroOrManyWarned ==
  Diffed =>
    \A r \in SheetRows :
      (IsEmpty(r.id) /\ ~IsEmpty(r.checkNumber)
         /\ Cardinality(SnapshotBucket(r.checkNumber)) # 1) =>
        /\ \E w \in Entries(warnings) :
             /\ w.row = r.rowNumber
             /\ IF SnapshotBucket(r.checkNumber) = {}
                THEN w.message = "No record found for Check #" \o r.checkNumber
                ELSE StartsWith(w.message,
                       "Multiple records for Check #" \o r.checkNumber)
        /\ ~HasEntry(updates, r.rowNumber)
        /\ ~HasEntry(skipped, r.rowNumber)
        /\ ~HasEntry(writes, r.rowNumber)

\* An apply run that has written for one row while another row's check
\* number is held by two records.
C7_Witness ==
  /\ ApplyDone
  /\ writes # <<>>
  /\ \E r \in SheetRows :
       /\ IsEmpty(r.id)
       /\ Cardinality(SnapshotBucket(r.checkNumber)) > 1
       /\ HasEntry(warnings, r.rowNumber)

\* C8: a matched row with a non-empty status that is not one of the three
\* recognized values gets a warning and no update and no skip, and nothing
\* is written for it, even when its notes differ from the stored notes.
C8_InvalidStatusRejectsRow ==
  Diffed =>
    \A r \in SheetRows :
      (Resolves(r) /\ ~IsEmpty(r.status) /\ ~Recognized(r.status)) =>
        /\ \E w \in Entries(warnings) :
             /\ w.row = r.rowNumber
             /\ StartsWith(w.message, "Invalid status \"" \o r.status \o "\"")
        /\ ~HasEntry(updates, r.rowNumber)
        /\ ~HasEntry(skipped, r.rowNumber)
        /\ ~HasEntry(writes, r.rowNumber)

\* An apply run over a sheet with a matched row whose status is not
\* recognized and whose notes differ from the stored notes.
C8_Witness ==
  /\ ApplyDone
  /\ \E r \in SheetRows :
       /\ Resolves(r) /\ ~IsEmpty(r.status) /\ ~Recognized(r.status)
       /\ r.notes # UNDEFINED /\ r.notes # StoredNotes(ResolvedRecord(r))
       /\ HasEntry(warnings, r.rowNumber)

\* The parsed row with sheet row number n.
RowAt(n) == CHOOSE r \in SheetRows : r.rowNumber = n

\* The update computed for sheet row n.
UpdateAt(list, n) == CHOOSE u \in Entries(list) : u.row = n

\* C9: every update carries at least one change, of notes or
\* completion_status only, each with `from` the snapshot value (absent
\* notes as ""), `to` the row's value and from # to; a matched valid row
\* without a differing field is skipped with "No changes"; the write of an
\* update has exactly the changed fields, plus sign_off_date when
\* completion_status is changed.
C9_MinimalChanges ==
  Diffed =>
    /\ \A u \in Entries(updates) :
         LET r == RowAt(u.row)
             rec == dbRecords[u.id]
         IN /\ DOMAIN u.changes # {}
            /\ DOMAIN u.changes \subseteq {"notes", "completion_status"}
            /\ "notes" \in DOMAIN u.changes =>
                 /\ u.changes.notes.from = StoredNotes(rec)
                 /\ u.changes.notes.to = r.notes
                 /\ u.changes.notes.from # u.changes.notes.to
            /\ "completion_status" \in DOMAIN u.changes =>
                 /\ u.changes.completion_status.from = rec.completion_status
                 /\ u.changes.completion_status.to = r.status
                 /\ u.changes.completion_status.from # u.changes.completion_status.to
    /\ \A r \in SheetRows :
         (Resolves(r) /\ (IsEmpty(r.status) \/ Recognized(r.status))
            /\ ~FieldDiffers(r, ResolvedRecord(r))) =>
           /\ \E k \in Entries(skipped) :
                k.row = r.rowNumber /\ k.reason = "No changes"
           /\ ~HasEntry(updates, r.rowNumber)
    /\ \A w \in Entries(writes) :
         LET u == UpdateAt(updates, w.row)
         IN DOMAIN w.payload =
              DOMAIN u.changes \cup
                (IF "completion_status" \in DOMAIN u.changes
                 THEN {"sign_off_date"} ELSE {})

\* An apply run that has written notes alone for one row and skipped
\* another row.
C9_Witness ==
  /\ ApplyDone
  /\ skipped # <<>>
  /\ \E w \in Entries(writes) : DOMAIN w.payload = {"notes"}

\* The writes of the apply loop follow the list `ups`: the same records in
\* the same order, each with the `to` value of every change.
WritesFollow(ups) ==
  /\ Len(writes) = Len(ups)
  /\ \A k \in 1..Len(ups) :
       /\ writes[k].id = ups[k].id
       /\ \A f \in DOMAIN ups[k].changes :
            writes[k].payload[f] = ups[k].changes[f].to

\* C10: an apply run acts on the change set a preview of the same sheet
\* against the same store returns: a run that follows a preview without a
\* change of the store computes the updates, warnings and skipped lists
\* the preview returned; the apply response carries these warnings and
\* skipped lists, and the records written (applied together with errors)
\* are those of the updates, each with the update's `to` values.
C10_ApplyActsOnPreview ==
  /\ [][(PreviewDone /\ pc' = "apply")
          => /\ updates' = response.body.updates
             /\ warnings' = response.body.warnings
             /\ skipped' = response.body.skipped]_vars
  /\ [](ApplyDone =>
          /\ response.body.warnings = warnings
          /\ response.body.skipped = skipped
          /\ WritesFollow(updates)
          /\ Len(applied) + Len(errors) = Len(updates)
          /\ {e.id : e \in Entries(applied)} \cup {e.id : e \in Entries(errors)}
               = {u.id : u \in Entries(updates)}
          /\ response.body.applied = applied
          /\ response.body.errors = errors)

\* An apply run in which one write succeeded and one failed.
C10_Witness == ApplyDone /\ applied # <<>> /\ errors # <<>>

\* C11: in apply mode every update is attempted exactly once, whatever
\* the outcome of the earlier writes.  Each step of the loop issues the
\* write of the next update and ends it in exactly one of applied (the
\* store takes the payload) or errors (with the message; the store and the
\* earlier writes stay as they are), and the loop goes on; the apply
\* response has status 200 and carries both lists, whose ids together are
\* the ids of updates.
C11_EveryUpdateAttemptedOnce ==
  /\ [][(pc = "apply" /\ idx <= Len(updates))
          => /\ pc' = "apply" /\ idx' = idx + 1
             /\ Len(writes') = idx
             /\ SubSeq(writes', 1, idx - 1) = writes
             /\ writes'[idx].id = updates[idx].id
             /\ \/ /\ applied' = Append(applied,
                                        [id |-> updates[idx].id,
                                         checkNumber |-> updates[idx].checkNumber])
                   /\ errors' = errors
                   /\ db' = StoreUpdate(db, updates[idx].id, writes'[idx].payload)
                \/ /\ Len(errors') = Len(errors) + 1
                   /\ SubSeq(errors', 1, Len(errors)) = errors
                   /\ errors'[Len(errors')].id = updates[idx].id
                   /\ Truthy(errors'[Len(errors')].error)
                   /\ applied' = applied
                   /\ db' = db]_vars
  /\ [](ApplyDone =>
          /\ Len(writes) = Len(updates)
          /\ Len(applied) + Len(errors) = Len(updates)
          /\ {e.id : e \in Entries(applied)} \cup {e.id : e \in Entries(errors)}
               = {u.id : u \in Entries(updates)}
          /\ response.status = 200
          /\ response.body.applied = applied
          /\ response.body.errors = errors)

\* An apply run whose first write, of notes, failed and whose second
\* write, of the status, is in the store.
C11_Witness ==
  /\ ApplyDone
  /\ Len(writes) = 2 /\ Len(errors) = 1 /\ Len(applied) = 1
  /\ DOMAIN writes[1].payload = {"notes"}
  /\ db[writes[1].id].notes # writes[1].payload.notes
  /\ "completion_status" \in DOMAIN writes[2].payload
  /\ db[writes[2].id].completion_status = writes[2].payload.completion_status

\* The file fails the schema checks: it is missing, has no worksheet, or
\* its header row lacks both id and check number or both notes and status.
SchemaFails(f) ==
  \/ ~f.present
  \/ ~f.hasSheet
  \/ LET col == HeaderColumns[f.sheet[1]]
     IN \/ col.id = 0 /\ col.check = 0
        \/ col.notes = 0 /\ col.status = 0

\* C13: a request whose file fails the schema checks, whatever its action,
\* ends with one top-level error and a status outside 200..299, without a
\* read of the store, without a write, without parsed rows and without
\* updates, warnings or skipped lists.
C13_SchemaFailureAborts ==
  (pc # "idle" /\ SchemaFails(file)) =>
    /\ pc = "done"
    /\ response.status >= 300
    /\ DOMAIN response.body = {"error"}
    /\ dbRecords = <<>>
    /\ writes = <<>> /\ db = dbAtStart
    /\ parsedRows = <<>>
    /\ updates = <<>> /\ warnings = <<>> /\ skipped = <<>>

\* An apply request whose sheet has data rows under a header row without
\* notes and status columns.
C13_Witness ==
  /\ pc = "done" /\ action = "apply"
  /\ file.present /\ file.hasSheet /\ Len(file.sheet) > 1
  /\ HeaderColumns[file.sheet[1]].notes = 0
  /\ HeaderColumns[file.sheet[1]].status = 0
  /\ response.status = 400

\* C12: an apply write for an update that changes completion_status
\* carries sign_off_date, the current time when the new status is
\* "Complete" and null for any other status, and a write that succeeds
\* leaves the record with that status and sign-off date; a write for an
\* update of notes alone carries no sign_off_date and leaves the record's
\* sign-off date as it was.
C12_SignOffFollowsStatus ==
  [][(Len(writes') = Len(writes) + 1)
       => LET w == writes'[Len(writes')]
              u == updates[idx]
          IN IF "completion_status" \in DOMAIN u.changes
             THEN LET to == u.changes.completion_status.to
                  IN /\ "sign_off_date" \in DOMAIN w.payload
                     /\ w.payload.sign_off_date
                          = (IF to = "Complete" THEN Timestamp(clock) ELSE NULL)
                     /\ (w.payload.sign_off_date # NULL) <=> (to = "Complete")
                     /\ applied' # applied =>
                          /\ db'[u.id].completion_status = to
                          /\ db'[u.id].sign_off_date = w.payload.sign_off_date
             ELSE /\ "sign_off_date" \notin DOMAIN w.payload
                  /\ db'[u.id].sign_off_date = db[u.id].sign_off_date]_vars

\* An apply run that has written notes alone for one record and set
\* another record "Complete", signed off at the time of the write.
C12_Witness ==
  /\ ApplyDone
  /\ \E w \in Entries(writes) : DOMAIN w.payload = {"notes"}
  /\ \E w \in Entries(writes) :
       /\ "completion_status" \in DOMAIN w.payload
       /\ w.payload.completion_status = "Complete"
       /\ db[w.id].sign_off_date = Timestamp(clock)
       /\ dbAtStart[w.id].sign_off_date = NULL

\* The row numbers of a list are strictly increasing.
Increasing(list) ==
  \A i, j \in 1..Len(list) : i < j => list[i].row < list[j].row

RECURSIVE IdsAt(_, _, _)
\* The ids of the entries of a list at the positions of S, from k on.
IdsAt(list, S, k) ==
  IF k > Len(list) THEN <<>>
  ELSE (IF k \in S THEN <<list[k].id>> ELSE <<>>) \o IdsAt(list, S, k + 1)

Ids(list) == [k \in 1..Len(list) |-> list[k].id]

\* C14: updates, warnings and skipped are each in strictly increasing row
\* order; the writes of apply mode are those of the updates in their
\* order; applied and errors are, each in the order of updates, the
\* updates whose write succeeded and those whose write failed; the
\* response returns the lists as they are.
C14_ListsInRowOrder ==
  Diffed =>
    /\ Increasing(updates) /\ Increasing(warnings) /\ Increasing(skipped)
    /\ Len(writes) <= Len(updates)
    /\ \A k \in 1..Len(writes) :
         writes[k].row = updates[k].row /\ writes[k].id = updates[k].id
    /\ \E S \in SUBSET (1..Len(writes)) :
         /\ Ids(applied) = IdsAt(updates, S, 1)
         /\ Ids(errors) = IdsAt(updates, (1..Len(writes)) \ S, 1)
    /\ PreviewDone =>
         /\ response.body.updates = updates
         /\ response.body.warnings = warnings
         /\ response.body.skipped = skipped
    /\ ApplyDone =>
         /\ response.body.applied = applied
         /\ response.body.errors = errors
         /\ response.body.warnings = warnings
         /\ response.body.skipped = skipped

\* An apply run over three updates of three records, the second of which
\* failed.
C14_Witness ==
  /\ ApplyDone
  /\ Len(updates) = 3
  /\ Cardinality({u.id : u \in Entries(updates)}) = 3
  /\ Ids(applied) = <<updates[1].id, updates[3].id>>
  /\ Ids(errors) = <<updates[2].id>>

\* Sheet row k as the parser reads it.
RawRow(k) == ParsedRow(HeaderColumns[file.sheet[1]], file.sheet[k], k)

\* The numbers of the sheet rows whose id, checkNumber, notes and status
\* are all empty or absent.
BlankRows ==
  {k \in 2..Len(file.sheet) :
     LET r == RawRow(k)
     IN IsEmpty(r.id) /\ IsEmpty(r.checkNumber) /\ IsEmpty(r.notes)
          /\ IsEmpty(r.status)}

RECURSIVE WithoutRows(_, _, _)
\* The sheet without the rows whose numbers are in K, from row k on.
WithoutRows(sheet, K, k) ==
  IF k > Len(sheet) THEN <<>>
  ELSE (IF k \in K THEN <<>> ELSE <<sheet[k]>>) \o WithoutRows(sheet, K, k + 1)

\* The entries of a list without their row numbers.
Unrowed(list) ==
  [k \in 1..Len(list) |-> [f \in DOMAIN list[k] \ {"row"} |-> list[k][f]]]

\* C15: a blank sheet row has no entry in updates, warnings or skipped;
\* the rows parsed are the other rows, each as the sheet has it; and the
\* three lists are, but for the row numbers, those the sheet without its
\* blank rows gives against the same records.
C15_BlankRowsInert ==
  Diffed =>
    /\ \A k \in BlankRows :
         ~HasEntry(updates, k) /\ ~HasEntry(warnings, k) /\ ~HasEntry(skipped, k)
    /\ {r.rowNumber : r \in SheetRows} = (2..Len(file.sheet)) \ BlankRows
    /\ \A r \in SheetRows : r = RawRow(r.rowNumber)
    /\ LET d == MatchAndDiff(ParseSheet(WithoutRows(file.sheet, BlankRows, 1)),
                             dbRecords)
       IN /\ Unrowed(d.updates) = Unrowed(updates)
          /\ Unrowed(d.warnings) = Unrowed(warnings)
          /\ Unrowed(d.skipped) = Unrowed(skipped)

\* A run over a sheet with a blank row of white space between a row that
\* is updated and a row that is warned about.
C15_Witness ==
  /\ Diffed
  /\ \E k \in BlankRows :
       /\ \E c \in 1..Len(file.sheet[k]) : file.sheet[k][c] \notin {NULL, ""}
       /\ \E u \in Entries(updates) : u.row < k
       /\ \E w \in Entries(warnings) : w.row > k

\* C16: within one run the ids of the updates are pairwise distinct.
C16_DistinctTargets ==
  Diffed =>
    \A i, j \in 1..Len(updates) : i # j => updates[i].id # updates[j].id

\* C17: each stored record has a sign-off date exactly when its status is
\* "Complete".
C17_SignedOffIffComplete ==
  \A i \in DOMAIN db :
    (db[i].sign_off_date # NULL) <=> (db[i].completion_status = "Complete")

\* After a create and an edit, an apply run has signed off a record.
C17_Witness ==
  /\ ApplyDone /\ applied # <<>>
  /\ clock > MaxClock
  /\ Cardinality(DOMAIN db) > Cardinality(DOMAIN dbRecords)
  /\ db["r1"].sign_off_date = Timestamp(clock)
  /\ db["r2"].completion_status = "Pending"

\* C18: a step that leaves a record's completion_status as it was leaves
\* its sign_off_date as it was, and a step that changes the status to
\* "Complete" sets the sign-off date.
C18_SignOffOnlyOnStatusChange ==
  [][\A i \in DOMAIN db :
       /\ db'[i].completion_status = db[i].completion_status
            => db'[i].sign_off_date = db[i].sign_off_date
       /\ (db'[i].completion_status = "Complete"
             /\ db[i].completion_status # "Complete")
            => db'[i].sign_off_date # NULL]_vars

\* The table holds a submission with the form's trimmed check number and
\* owner number and an amount within 0.01 of the form's.
HoldsDuplicate ==
  \E i \in DOMAIN db :
    /\ Trim(db[i].check_number) = Trim(form.checkNumber)
    /\ Trim(db[i].owner_number) = Trim(form.ownerNumber)
    /\ ParseFloat(form.checkAmount) # NaN
    /\ Abs(db[i].check_amount - ParseFloat(form.checkAmount)) < 10

\* C19: the create request is sent for a form of which the table holds a
\* duplicate only after the user has confirmed the duplicate warning.
C19_DuplicateNeedsConfirmation ==
  [][(form.pc = "submitting" /\ form'.sent /\ HoldsDuplicate)
       => form.confirmed]_vars

-----------------------------------------------------------------------------
(* Warning texts.                                                          *)

\* The messages of the warnings about sheet row n.
MessagesFor(n) == {w.message : w \in {e \in Entries(warnings) : e.row = n}}

\* The row has no id and a check number that several snapshot records hold.
Ambiguous(r) ==
  IsEmpty(r.id) /\ ~IsEmpty(r.checkNumber)
    /\ Cardinality(SnapshotBucket(r.checkNumber)) > 1

\* The messages of the two not-found warnings are exactly the quoted texts.
NotFoundTexts ==
  \A r \in SheetRows :
    /\ (~IsEmpty(r.id) /\ r.id \notin DOMAIN dbRecords) =>
         MessagesFor(r.rowNumber)
           = {"No record found for ID \"" \o r.id \o "\""}
    /\ (IsEmpty(r.id) /\ ~IsEmpty(r.checkNumber)
          /\ SnapshotBucket(r.checkNumber) = {}) =>
         MessagesFor(r.rowNumber)
           = {"No record found for Check #" \o r.checkNumber}

-----------------------------------------------------------------------------
(* Presence rules of the diff.                                             *)

\* The columns the current sheet's header row names (0: absent).
SheetColumns == HeaderColumns[file.sheet[1]]

\* The updates about sheet row n.
UpdatesFor(n) == {u \in Entries(updates) : u.row = n}

\* The row reaches the diff: it is resolved and its status is acceptable.
Compared(r) == Resolves(r) /\ (IsEmpty(r.status) \/ Recognized(r.status))

-----------------------------------------------------------------------------
(* Frame of the apply mode.                                                *)

\* The fields an import may write.
ImportedFields == {"notes", "completion_status", "sign_off_date"}

\* The ids the updates of the current request name.
UpdateIds == {u.id : u \in Entries(updates)}

\* Table t differs from table s at most in imported fields of the records
\* in ids: the same records with the same fields, all else equal.
FramedBy(s, t, ids) ==
  /\ DOMAIN t = DOMAIN s
  /\ \A i \in DOMAIN s :
       /\ DOMAIN t[i] = DOMAIN s[i]
       /\ \A f \in DOMAIN s[i] :
            t[i][f] # s[i][f] => (f \in ImportedFields /\ i \in ids)

\* C27: every step of an apply run changes only notes, completion_status
\* and sign_off_date of records named in updates, leaves every other field
\* and record unchanged and creates or deletes no record; so does the run
\* as a whole.
C27_ApplyFrame ==
  /\ [][pc = "apply" => FramedBy(db, db', UpdateIds)]_vars
  /\ [](ApplyDone => FramedBy(dbAtStart, db, UpdateIds))

\* An apply run that has written one record and left alone another that
\* its updates do not name.
C27_Witness ==
  /\ ApplyDone
  /\ applied # <<>>
  /\ \E i, j \in DOMAIN db :
       /\ i \notin UpdateIds /\ db[i] = dbAtStart[i]
       /\ j \in UpdateIds /\ db[j] # dbAtStart[j]
       /\ db[j].check_amount = dbAtStart[j].check_amount

-----------------------------------------------------------------------------
(* The importer beside other writers.                                      *)

\* The last step has appended an entry to the applied list.
Applies == Len(applied') = Len(applied) + 1

\* Write k of the current request was issued for a record whose stored
\* value of a changed field was neither the update's `from` nor its `to`:
\* another writer had changed it since the snapshot.
Overwrote(k) ==
  /\ writes[k].before # <<>>
  /\ \E u \in Entries(updates) :
       /\ u.row = writes[k].row
       /\ \E f \in DOMAIN u.changes :
            /\ OrElse(writes[k].before[1][f], "") # u.changes[f].from
            /\ OrElse(writes[k].before[1][f], "") # u.changes[f].to

\* C22: the apply loop writes without comparing the stored value with the
\* update's `from`: a write the store accepts for an existing record
\* leaves every changed field at its `to` value and is reported as
\* applied, whatever the record held just before.  A state where this
\* has overwritten the change of a writer that came after the snapshot is
\* reachable (C22_Witness).
C22_WritesRegardlessOfFrom ==
  [][(pc = "apply" /\ Applies /\ updates[idx].id \in DOMAIN db) =>
       /\ updates[idx].id \in DOMAIN db'
       /\ \A f \in DOMAIN updates[idx].changes :
            db'[updates[idx].id][f] = updates[idx].changes[f].to
       /\ applied'[Len(applied')].id = updates[idx].id]_vars

\* An apply run has answered with a row applied whose record an edit
\* through the submissions API had changed between the snapshot and the
\* write: the edit is lost, the record holds the sheet's value.
C22_Witness ==
  /\ ApplyDone
  /\ \E k \in 1..Len(writes) :
       /\ Overwrote(k)
       /\ \E a \in Entries(response.body.applied) : a.id = writes[k].id
       /\ writes[k].before[1].completion_status = "Request Invalidated"
       /\ db[writes[k].id].completion_status = "Complete"

\* C23: right after the write of an update that is reported as applied, a
\* stored record with the update's id exists and its changed fields hold
\* the update's `to` values, also when another request has deleted the
\* record since the snapshot.
C23_AppliedMeansWritten ==
  [][(pc = "apply" /\ Applies) =>
       /\ updates[idx].id \in DOMAIN db'
       /\ \A f \in DOMAIN updates[idx].changes :
            db'[updates[idx].id][f] = updates[idx].changes[f].to]_vars

-----------------------------------------------------------------------------
(* Properties of the monthly report.                                       *)

\* The caller of the current report request has presented the secret the
\* operator has configured.
PresentsSecret ==
  /\ ~IsEmpty(cron.env.CRON_SECRET)
  /\ cron.header = "Bearer " \o cron.env.CRON_SECRET

\* C25: a report request whose Authorization header is missing or is not
\* "Bearer " followed by the configured CRON_SECRET is answered with 401,
\* without a read of the table and without an email; so is every request
\* when CRON_SECRET is not configured.
C25_OnlyConfiguredSecret ==
  (cron.pc # "idle" /\ ~PresentsSecret) =>
    /\ cron.response.status = 401
    /\ cron.fetched = "no"
    /\ cron.emails = <<>>

\* The records that were Pending when the current report request read the
\* table.
FetchedPending ==
  {i \in DOMAIN cron.table : cron.table[i].completion_status = "Pending"}

\* The data rows of the sheet are the records that were Pending at the
\* fetch, each once, later requests first.
ListsFetchedPending(sheet) ==
  /\ Len(sheet) = Cardinality(FetchedPending) + 1
  /\ \A k \in 2..Len(sheet) :
       /\ sheet[k][1] \in FetchedPending
       /\ sheet[k][7] = "Pending"
       /\ \A l \in (k + 1)..Len(sheet) :
            /\ sheet[l][1] # sheet[k][1]
            /\ DayOf(cron.table[sheet[k][1]].request_date)
                 >= DayOf(cron.table[sheet[l][1]].request_date)

\* C26: an authorized report request sends at most one email, and only
\* when some record was Pending at the fetch and REPORT_RECIPIENTS is
\* configured; the sheet then lists exactly the records Pending at the
\* fetch, latest request first.  Having found no Pending record the
\* request answers with success and sends nothing; having found some but
\* no recipients it answers with an error and sends nothing.  No step of
\* the handler writes the table.
C26_OneReportOfPending ==
  /\ [][cron' # cron => db' = db]_vars
  /\ [](/\ Len(cron.emails) <= 1
        /\ cron.emails # <<>> =>
             /\ FetchedPending # {}
             /\ ~IsEmpty(cron.env.REPORT_RECIPIENTS)
             /\ cron.emails[1].to = cron.env.REPORT_RECIPIENTS
             /\ ListsFetchedPending(cron.emails[1].sheet)
        /\ (cron.pc = "done" /\ cron.fetched = "yes") =>
             IF FetchedPending = {}
             THEN /\ cron.response.status = 200
                  /\ cron.response.body.success
                  /\ cron.emails = <<>>
             ELSE IsEmpty(cron.env.REPORT_RECIPIENTS) =>
                    /\ cron.response.status = 500
                    /\ ~cron.response.body.success
                    /\ cron.emails = <<>>)

\* A report of two pending records has been sent, from a table that holds
\* a record that is not pending, and the importer has since changed the
\* table.
C26_Witness ==
  /\ cron.pc = "done"
  /\ Len(cron.emails) = 1
  /\ Len(cron.emails[1].sheet) = 3
  /\ Cardinality(DOMAIN cron.table) = 3
  /\ db # cron.table

\* The current import request has diffed the sheet of the report against
\* the table the report was made of.
ReportReturned ==
  /\ Diffed
  /\ cron.emails # <<>>
  /\ file.sheet = cron.emails[1].sheet
  /\ dbAtStart = cron.table

\* C28: the sheet of the monthly report, uploaded as it is while the table
\* is as the report found it, gives no update and no warning: every row is
\* matched by its id and skipped with "No changes", whatever the stored
\* notes are.
C28_ReportRoundTrip ==
  ReportReturned =>
    /\ updates = <<>>
    /\ warnings = <<>>
    /\ Len(skipped) = Len(file.sheet) - 1
    /\ \A k \in 1..Len(skipped) :
         /\ skipped[k].id = file.sheet[k + 1][1]
         /\ skipped[k].reason = "No changes"

-----------------------------------------------------------------------------
(* Properties of the submissions view.                                     *)

\* C29: the PATCH of saveEdit carries the id of the record whose values
\* startEdit has loaded into the edit form, however the arrivals of list
\* responses are interleaved with startEdit and saveEdit.
C29_SavesTheEditedRecord ==
  view.patched # <<>> => view.patched[1].id = view.patched[1].editing

-----------------------------------------------------------------------------
(* Properties of the attachment upload.                                    *)

\* C30: an upload request either stores every file and answers with as
\* many paths as files, in the order of the files, or answers with an
\* error that lists no path and leaves none of its files in the bucket.
C30_AllOrNothing ==
  (storage.pc = "done" /\ storage.files # <<>>) =>
    IF storage.response.status = 200
    THEN /\ Len(storage.response.body.paths) = Len(storage.files)
         /\ \A j \in 1..Len(storage.files) :
              /\ storage.response.body.paths[j] \in storage.objects
              /\ \E t \in 1..clock :
                   storage.response.body.paths[j]
                     = PathOf(t, storage.files[j])
    ELSE /\ "paths" \notin DOMAIN storage.response.body
         /\ \A j \in 1..Len(storage.uploaded) :
              storage.uploaded[j] \notin storage.objects

====
